---- MODULE Spec2Model ----
(***************************************************************************)
(* A model of the context-free-grammar engine of cfg.py: the rule store    *)
(* (CFGrammar, CFRule), the grammar algebra (minimize, unit-production     *)
(* expansion, to_cnf, unique) and the two parsers (cky_parse,              *)
(* earley_parse).                                                          *)
(*                                                                         *)
(* A symbol is a Python string, modelled as a sequence of one-character    *)
(* strings, so that startswith/endswith, upper() and the numeric suffixes  *)
(* of unique() are computed and not assumed.  None is the empty sequence.  *)
(*                                                                         *)
(* The last part models the rewrite rule of the tagger of tbl.py           *)
(* (Transform), whose tagged tokens the parsers consume.                   *)
(***************************************************************************)
EXTENDS Integers, Sequences, FiniteSets, TLC

VARIABLES rules, start, out, words, chart, coli, pos, pc, tagged_text

earleyVars == <<words, chart, coli, pos, pc>>
vars == <<rules, start, out, words, chart, coli, pos, pc, tagged_text>>

(***************************************************************************)
(* Generic helpers on sequences and sets.                                  *)
(***************************************************************************)
Range(s) == {s[i] : i \in 1..Len(s)}

None == <<>>

\* LET v == x IN F(v), with x evaluated once
Bind(x, F(_)) == CHOOSE y \in {F(v) : v \in {x}} : TRUE

RECURSIVE SeqsUpTo(_, _)
SeqsUpTo(S, n) ==
    IF n = 0 THEN {<<>>}
    ELSE LET shorter == SeqsUpTo(S, n - 1)
         IN  shorter \cup {Append(s, x) : s \in {t \in shorter : Len(t) = n - 1}, x \in S}

(***************************************************************************)
(* Characters.                                                             *)
(***************************************************************************)
IsSpace(c) == c = " "

Lower == <<"a", "b", "c", "x", "y">>
Upper == <<"A", "B", "C", "X", "Y">>

\* str.upper() on one character, then on a string
upper_char(c) ==
    IF \E i \in 1..Len(Lower) : Lower[i] = c
    THEN Upper[CHOOSE i \in 1..Len(Lower) : Lower[i] = c]
    ELSE c

upper(s) == [i \in 1..Len(s) |-> upper_char(s[i])]

Digits == <<"0", "1", "2", "3", "4", "5", "6", "7", "8", "9">>

\* str(i) for a natural number i
RECURSIVE str(_)
str(i) == IF i < 10 THEN <<Digits[i + 1]>>
          ELSE str(i \div 10) \o <<Digits[(i % 10) + 1]>>

startswith_slash(s) == Len(s) >= 1 /\ s[1] = "/"
endswith_slash(s) == Len(s) >= 1 /\ s[Len(s)] = "/"

(***************************************************************************)
(* default_tokenizer: s.split() on a string, list(s) on anything else.     *)
(* A string argument is [str |-> TRUE, val |-> characters]; a sequence     *)
(* argument is [str |-> FALSE, val |-> sequence of symbols].               *)
(***************************************************************************)
Str(chars) == [str |-> TRUE, val |-> chars]
Lst(items) == [str |-> FALSE, val |-> items]

RECURSIVE split(_, _, _)
split(s, cur, acc) ==
    IF s = <<>> THEN (IF cur = <<>> THEN acc ELSE Append(acc, cur))
    ELSE Bind(Tail(s), LAMBDA rest :
         IF IsSpace(Head(s))
         THEN Bind(IF cur = <<>> THEN acc ELSE Append(acc, cur), LAMBDA acc1 :
                 split(rest, <<>>, acc1))
         ELSE Bind(Append(cur, Head(s)), LAMBDA cur1 : split(rest, cur1, acc)))

default_tokenizer(s) == IF s.str THEN split(s.val, <<>>, <<>>) ELSE s.val

(***************************************************************************)
(* CFRule.__init__: a rule keeps its left side, its right side and one     *)
(* compiled pattern (or None) per right-hand position.                     *)
(***************************************************************************)
NoRegex == [on |-> FALSE, body |-> <<>>]

compile(sym) ==
    IF startswith_slash(sym) /\ endswith_slash(sym) /\ Len(sym) >= 2
    THEN [on |-> TRUE, body |-> SubSeq(sym, 2, Len(sym) - 1)]
    ELSE NoRegex

CFRule(left, right) ==
    [left |-> left, right |-> right,
     regexes |-> [i \in 1..Len(right) |-> compile(right[i])]]

\* CFRule.__eq__ compares the two sides only
rule_eq(r1, r2) == r1.left = r2.left /\ r1.right = r2.right

(***************************************************************************)
(* CFGrammar._parse_rhs on a string: the alternation of the five meta      *)
(* tokens REGEX, QUOTE, WORD, PIPE, MISMATCH tried in this order at each   *)
(* position.  The result is the sequence of the generator's yields.        *)
(***************************************************************************)
\* least q > p with text[q] = c, or 0
FirstAfter(text, p, c) ==
    IF \E q \in (p + 1)..Len(text) : text[q] = c
    THEN CHOOSE q \in (p + 1)..Len(text) :
            text[q] = c /\ \A r \in (p + 1)..(q - 1) : text[r] # c
    ELSE 0

IsWordChar(c) == ~IsSpace(c) /\ c # "|"

\* last position of the maximal run of word characters starting at p
WordEnd(text, p) ==
    CHOOSE q \in p..Len(text) :
        /\ \A r \in p..q : IsWordChar(text[r])
        /\ (q = Len(text) \/ ~IsWordChar(text[q + 1]))

\* the token matched at position p: its kind and its last position
TokenAt(text, p) ==
    LET rq == FirstAfter(text, p, "/")
        qq == FirstAfter(text, p, "\"")
    IN  IF text[p] = "/" /\ rq # 0 THEN [kind |-> "REGEX", end |-> rq]
        ELSE IF text[p] = "\"" /\ qq >= p + 2 THEN [kind |-> "QUOTE", end |-> qq]
        ELSE IF IsWordChar(text[p]) THEN [kind |-> "WORD", end |-> WordEnd(text, p)]
        ELSE IF text[p] = "|" THEN [kind |-> "PIPE", end |-> p]
        ELSE [kind |-> "MISMATCH", end |-> p]

RECURSIVE parse_rhs_str(_, _, _, _)
parse_rhs_str(text, p, current, yielded) ==
    IF p > Len(text)
    THEN (IF current # <<>> THEN Append(yielded, current) ELSE yielded)
    ELSE Bind(TokenAt(text, p), LAMBDA tk :
         Bind(SubSeq(text, p, tk.end), LAMBDA value :
         Bind(IF tk.kind = "QUOTE" THEN Append(current, SubSeq(value, 2, Len(value) - 1))
              ELSE IF tk.kind \in {"REGEX", "WORD"} THEN Append(current, value)
              ELSE current, LAMBDA appended :
         Bind(Append(yielded, current), LAMBDA more :
            IF tk.kind = "PIPE"
            THEN parse_rhs_str(text, tk.end + 1, <<>>, more)
            ELSE parse_rhs_str(text, tk.end + 1, appended, yielded)))))

parse_rhs(rhs) ==
    IF rhs.str THEN parse_rhs_str(rhs.val, 1, <<>>, <<>>) ELSE <<rhs.val>>

(***************************************************************************)
(* CFGrammar.__setitem__ on a grammar value g = [rules, start].  The loop  *)
(* appends one rule per variation and raises at the first empty one, so    *)
(* the variations before it stay appended.                                 *)
(***************************************************************************)
Grammar(rs, st) == [rules |-> rs, start |-> st]

EmptyGrammar == Grammar(<<>>, None)

\* a variant that sets the start symbol only when none has been set yet
RECURSIVE setitem_loop_keep_start(_, _, _)
setitem_loop_keep_start(g, lhs, variations) ==
    IF variations = <<>> THEN [g |-> g, err |-> "ok"]
    ELSE IF Head(variations) # <<>>
         THEN Bind(Grammar(Append(g.rules, CFRule(lhs, Head(variations))),
                           IF g.start = None THEN lhs ELSE g.start), LAMBDA g1 :
              Bind(Tail(variations), LAMBDA rest : setitem_loop_keep_start(g1, lhs, rest)))
         ELSE [g |-> g, err |-> "ValueError"]

RECURSIVE setitem_loop(_, _, _)
setitem_loop(g, lhs, variations) ==
    IF variations = <<>> THEN [g |-> g, err |-> "ok"]
    ELSE IF Head(variations) # <<>>
         THEN Bind(Grammar(Append(g.rules, CFRule(lhs, Head(variations))),
                           IF Len(g.rules) = 0 THEN lhs ELSE g.start), LAMBDA g1 :
              Bind(Tail(variations), LAMBDA rest : setitem_loop(g1, lhs, rest)))
         ELSE [g |-> g, err |-> "ValueError"]

setitem(g, lhs, rhs) == Bind(parse_rhs(rhs), LAMBDA vs : setitem_loop(g, lhs, vs))

(***************************************************************************)
(* CFRule.matches.  A compiled pattern '^' + body + '$' is matched by      *)
(* RegexMatch, which implements literal characters and the postfix '+'.    *)
(* The answer is "T", "F" or "IndexError" (a position past the rule's      *)
(* lists).                                                                 *)
(***************************************************************************)
RECURSIVE RegexMatch(_, _)
RegexMatch(body, tok) ==
    IF body = <<>> THEN tok = <<>>
    ELSE IF Len(body) >= 2 /\ body[2] = "+"
    THEN \E k \in 1..Len(tok) :
            /\ \A j \in 1..k : tok[j] = body[1]
            /\ RegexMatch(SubSeq(body, 3, Len(body)), SubSeq(tok, k + 1, Len(tok)))
    ELSE tok # <<>> /\ tok[1] = body[1] /\ RegexMatch(Tail(body), Tail(tok))

\* matches(token, index) with index # -1; positions are 1-based here
matches_at(rule, token, index) ==
    IF index > Len(rule.regexes) THEN "IndexError"
    ELSE IF rule.regexes[index].on
    THEN (IF RegexMatch(rule.regexes[index].body, token) THEN "T" ELSE "F")
    ELSE IF index > Len(rule.right) THEN "IndexError"
    ELSE IF rule.right[index] = token THEN "T" ELSE "F"

RECURSIVE matches_loop(_, _, _)
matches_loop(rule, all_tokens, i) ==
    IF i > Len(all_tokens) THEN "T"
    ELSE LET m == matches_at(rule, all_tokens[i], i)
         IN  IF m = "T" THEN matches_loop(rule, all_tokens, i + 1) ELSE m

\* matches(token) with the default index -1: the whole right side
matches(rule, token) ==
    Bind(default_tokenizer(token), LAMBDA all_tokens : matches_loop(rule, all_tokens, 1))

(***************************************************************************)
(* CFGrammar queries.                                                      *)
(***************************************************************************)
contains(g, item) == \E i \in 1..Len(g.rules) : g.rules[i].left = item

get_rhs(g, key) ==
    LET RECURSIVE pick(_)
        pick(rs) == IF rs = <<>> THEN <<>>
                    ELSE IF Head(rs).left = key THEN <<Head(rs).right>> \o pick(Tail(rs))
                    ELSE pick(Tail(rs))
    IN  pick(g.rules)

\* get_lhs: the generator stops at the first rule whose match raises
get_lhs(g, key) ==
    Bind(Lst(default_tokenizer(key)), LAMBDA tokenized :
    Bind([i \in 1..Len(g.rules) |-> matches(g.rules[i], tokenized)], LAMBDA m :
       IF \E i \in 1..Len(g.rules) : m[i] = "IndexError"
       THEN [err |-> "IndexError", val |-> {}]
       ELSE [err |-> "ok",
             val |-> {g.rules[i].left : i \in {j \in 1..Len(g.rules) : m[j] = "T"}}]))

\* every left side plus every right symbol that is not /.../
syms(g) ==
    {g.rules[i].left : i \in 1..Len(g.rules)} \cup
    {s \in UNION {Range(g.rules[i].right) : i \in 1..Len(g.rules)} :
        ~startswith_slash(s) \/ ~endswith_slash(s)}

(***************************************************************************)
(* CFGrammar mutators on grammar values.                                   *)
(***************************************************************************)
SelectSeq2(s, Keep(_)) ==
    LET RECURSIVE sel(_)
        sel(t) == IF t = <<>> THEN <<>>
                  ELSE IF Keep(Head(t)) THEN <<Head(t)>> \o sel(Tail(t))
                  ELSE sel(Tail(t))
    IN  sel(s)

\* __delitem__ with key = slice(kstart, kstop), or a key that is not a
\* slice.  kstart = None and hasStop = FALSE stand for an absent bound.
Slice(kstart, hasStop, kstop) ==
    [slice |-> TRUE, start |-> kstart, hasStop |-> hasStop, stop |-> kstop]
NotSlice == [slice |-> FALSE, start |-> None, hasStop |-> FALSE, stop |-> Lst(<<>>)]

\* a variant that rejects a slice without bounds, as __getitem__ does
delitem_reject_unbounded(g, key) ==
    IF key.slice
    THEN IF key.start = None /\ ~key.hasStop
         THEN [g |-> g, err |-> "ValueError"]
         ELSE LET tokenized == IF key.hasStop THEN default_tokenizer(key.stop)
                               ELSE None
                  Del(r) == /\ (key.start = None \/ r.left = key.start)
                            /\ (~key.hasStop \/ r.right = tokenized)
                  Keep(r) == ~Del(r)
              IN  [g |-> Grammar(SelectSeq2(g.rules, Keep), g.start), err |-> "ok"]
    ELSE [g |-> g, err |-> "NotImplementedError"]

delitem(g, key) ==
    IF key.slice
    THEN IF key.start = None /\ ~key.hasStop
         THEN [g |-> Grammar(<<>>, g.start), err |-> "ok"]
         ELSE LET tokenized == IF key.hasStop THEN default_tokenizer(key.stop)
                               ELSE None
                  Del(r) == /\ (key.start = None \/ r.left = key.start)
                            /\ (~key.hasStop \/ r.right = tokenized)
                  Keep(r) == ~Del(r)
              IN  [g |-> Grammar(SelectSeq2(g.rules, Keep), g.start), err |-> "ok"]
    ELSE [g |-> g, err |-> "NotImplementedError"]

rename(g, old, new) ==
    Grammar([i \in 1..Len(g.rules) |->
                [left |-> IF g.rules[i].left = old THEN new ELSE g.rules[i].left,
                 right |-> [k \in 1..Len(g.rules[i].right) |->
                              IF g.rules[i].right[k] = old THEN new
                              ELSE g.rules[i].right[k]],
                 regexes |-> g.rules[i].regexes]],
            g.start)

\* the symbols still unmarked after the marking pass of minimize
minimize_unmarked(g) ==
    (syms(g) \ {g.start}) \ UNION {Range(g.rules[i].right) : i \in 1..Len(g.rules)}

minimize(g) ==
    IF g.start # None /\ g.start \notin syms(g)
    THEN [g |-> g, err |-> "KeyError"]
    ELSE LET unmarked == minimize_unmarked(g)
             Keep(r) == r.left \notin unmarked
         IN  [g |-> Grammar(SelectSeq2(g.rules, Keep), g.start), err |-> "ok"]

(***************************************************************************)
(* Chomsky normal form tests.                                              *)
(***************************************************************************)
is_unit_production(g, rhs) == Len(rhs) = 1 /\ contains(g, rhs[1])

\* a variant that takes any two symbols for two nonterminals
rule_in_cnf_any_pair(g, rule) ==
    IF Len(rule.right) = 1 THEN ~contains(g, rule.right[1])
    ELSE Len(rule.right) = 2

rule_in_cnf(g, rule) ==
    IF Len(rule.right) = 1 THEN ~contains(g, rule.right[1])
    ELSE IF Len(rule.right) = 2
    THEN contains(g, rule.right[1]) /\ contains(g, rule.right[2])
    ELSE FALSE

in_cnf(g) == \A i \in 1..Len(g.rules) : rule_in_cnf(g, g.rules[i])

(***************************************************************************)
(* unique(excluding, suggestion).  The suffix loop over count(0) ends at   *)
(* the first free number, which is at most the size of excluding.  The     *)
(* fallback enumerates combinations_with_replacement('ABCDEFG', 3) in      *)
(* its lexicographic order.                                                *)
(***************************************************************************)
Letters == <<"A", "B", "C", "D", "E", "F", "G">>

Combinations ==
    {c \in [1..3 -> 1..Len(Letters)] : c[1] <= c[2] /\ c[2] <= c[3]}

CombRank(c) == (c[1] * Len(Letters) + c[2]) * Len(Letters) + c[3]

CombName(c) == <<Letters[c[1]], Letters[c[2]], Letters[c[3]]>>

unique(excluding, suggestion) ==
    IF suggestion # <<>>
    THEN IF suggestion \notin excluding THEN [err |-> "ok", val |-> suggestion]
         ELSE LET free(i) == (suggestion \o str(i)) \notin excluding
                  n == CHOOSE i \in 0..Cardinality(excluding) :
                          free(i) /\ \A j \in 0..(i - 1) : ~free(j)
              IN  [err |-> "ok", val |-> suggestion \o str(n)]
    ELSE LET freeC == {c \in Combinations : CombName(c) \notin excluding}
         IN  IF freeC = {} THEN [err |-> "ValueError", val |-> <<>>]
             ELSE [err |-> "ok",
                   val |-> CombName(CHOOSE c \in freeC :
                              \A d \in freeC : CombRank(c) <= CombRank(d))]

(***************************************************************************)
(* Grammars with object identity, for to_cnf.  The right side of a rule    *)
(* is a Python list, an object that pop/insert mutate in place.  h is the  *)
(* store of list objects (an object is its index in h) and a rule refers   *)
(* to its right side by obj.  The right sides of the source grammar are    *)
(* the objects 1..Len(g.rules).                                            *)
(***************************************************************************)
\* a variant that hands back the same object
list_copy_alias(h, obj) == [h |-> h, obj |-> obj]

\* copy(x) and list(x): a new list object with the same items
list_copy(h, obj) == [h |-> Append(h, h[obj]), obj |-> Len(h) + 1]

\* a new object holding the given items
list_new(h, items) == [h |-> Append(h, items), obj |-> Len(h) + 1]

HGrammar(h, rs, st) == [h |-> h, rules |-> rs, start |-> st]

HRule(h, left, obj) ==
    [left |-> left, obj |-> obj,
     regexes |-> [i \in 1..Len(h[obj]) |-> compile(h[obj][i])]]

deref(H) ==
    Grammar([i \in 1..Len(H.rules) |->
                [left |-> H.rules[i].left, right |-> H.h[H.rules[i].obj],
                 regexes |-> H.rules[i].regexes]],
            H.start)

\* __setitem__ with a right side that is not a string: _parse_rhs yields
\* list(rhs)
h_setitem_list(H, lhs, obj) ==
    Bind(list_copy(H.h, obj), LAMBDA c :
       IF c.h[c.obj] # <<>>
       THEN [H |-> HGrammar(c.h, Append(H.rules, HRule(c.h, lhs, c.obj)),
                            IF Len(H.rules) = 0 THEN lhs ELSE H.start),
             err |-> "ok"]
       ELSE [H |-> HGrammar(c.h, H.rules, H.start), err |-> "ValueError"])

\* __setitem__ with a string: every variation is a new list
RECURSIVE h_setitem_loop(_, _, _)
h_setitem_loop(H, lhs, variations) ==
    IF variations = <<>> THEN [H |-> H, err |-> "ok"]
    ELSE IF Head(variations) # <<>>
         THEN Bind(list_new(H.h, Head(variations)), LAMBDA c :
              Bind(HGrammar(c.h, Append(H.rules, HRule(c.h, lhs, c.obj)),
                            IF Len(H.rules) = 0 THEN lhs ELSE H.start), LAMBDA H1 :
              Bind(Tail(variations), LAMBDA rest : h_setitem_loop(H1, lhs, rest))))
         ELSE [H |-> H, err |-> "ValueError"]

h_setitem_str(H, lhs, text) ==
    Bind(parse_rhs(Str(text)), LAMBDA vs : h_setitem_loop(H, lhs, vs))

(***************************************************************************)
(* all_derivations and expand_unit_productions.  all_derivations returns   *)
(* the right-side objects of the source grammar in the order they are      *)
(* yielded.  A chain of unit productions deeper than the number of left    *)
(* sides runs through a cycle and never ends: the interpreter stops it     *)
(* with RecursionError.                                                    *)
(***************************************************************************)
Lefts(g) == {g.rules[i].left : i \in 1..Len(g.rules)}

RulesOf(g, nt) ==
    LET Is(i) == g.rules[i].left = nt
    IN  SelectSeq2([i \in 1..Len(g.rules) |-> i], Is)

RECURSIVE all_derivations(_, _, _)
RECURSIVE all_derivations_loop(_, _, _)
all_derivations(g, nonterminal, depth) ==
    IF depth > Cardinality(Lefts(g)) THEN [err |-> "RecursionError", val |-> <<>>]
    ELSE Bind(RulesOf(g, nonterminal), LAMBDA is : all_derivations_loop(g, is, depth))

all_derivations_loop(g, is, depth) ==
    IF is = <<>> THEN [err |-> "ok", val |-> <<>>]
    ELSE Bind(g.rules[Head(is)].right, LAMBDA rhs :
         Bind(IF is_unit_production(g, rhs)
              THEN all_derivations(g, rhs[1], depth + 1)
              ELSE [err |-> "ok", val |-> <<Head(is)>>], LAMBDA first :
            IF first.err # "ok" THEN first
            ELSE Bind(Tail(is), LAMBDA more :
                 Bind(all_derivations_loop(g, more, depth), LAMBDA rest :
                    IF rest.err # "ok" THEN rest
                    ELSE [err |-> "ok", val |-> first.val \o rest.val]))))

\* ret[lhs] = copy(obj) for every obj of objs, in order
RECURSIVE expand_insert(_, _, _)
expand_insert(H, lhs, objs) ==
    IF objs = <<>> THEN [H |-> H, err |-> "ok"]
    ELSE Bind(list_copy(H.h, Head(objs)), LAMBDA c :
         Bind(h_setitem_list(HGrammar(c.h, H.rules, H.start), lhs, c.obj), LAMBDA r :
            IF r.err # "ok" THEN r
            ELSE Bind(r.H, LAMBDA H1 :
                 Bind(Tail(objs), LAMBDA rest : expand_insert(H1, lhs, rest)))))

RECURSIVE expand_loop(_, _, _)
expand_loop(g, H, i) ==
    IF i > Len(g.rules) THEN [H |-> H, err |-> "ok"]
    ELSE Bind(g.rules[i], LAMBDA rule :
         Bind(IF is_unit_production(g, rule.right)
              THEN all_derivations(g, rule.right[1], 1)
              ELSE [err |-> "ok", val |-> <<i>>], LAMBDA d :
            IF d.err # "ok" THEN [H |-> H, err |-> d.err]
            ELSE Bind(expand_insert(H, rule.left, d.val), LAMBDA r :
                    IF r.err # "ok" THEN r
                    ELSE Bind(r.H, LAMBDA H1 : expand_loop(g, H1, i + 1)))))

SourceHeap(g) == [i \in 1..Len(g.rules) |-> g.rules[i].right]

expand_unit_productions(g) ==
    Bind(HGrammar(SourceHeap(g), <<>>, None), LAMBDA H : expand_loop(g, H, 1))

(***************************************************************************)
(* to_cnf.  A run carries the grammar under construction (H), the error    *)
(* raised (or "ok") and the log of the names obtained from unique: each    *)
(* entry records the name, the set it was asked to avoid and the names     *)
(* introduced before it.                                                   *)
(***************************************************************************)
Run(H, err, log) == [H |-> H, err |-> err, log |-> log]

LogEntry(name, excluding, log) ==
    [name |-> name, excluding |-> excluding,
     earlier |-> {log[k].name : k \in 1..Len(log)}]

\* "remove mixed terminals": mixed is the set of positions (rule, i) with
\* len(rule) > 1 and rule[i] not a left side of the source grammar.
\* The loop reaches line 342 at the first such position: it has asked
\* unique for a name and inserted the rule new_name -> sym, and the
\* assignment to the undefined name rhs raises NameError
remove_mixed_terminals(g, run) ==
    Bind(run.H, LAMBDA H :
    Bind({p \in UNION {{<<r, i>> : i \in 1..Len(H.h[H.rules[r].obj])} :
                         r \in 1..Len(H.rules)} :
            /\ Len(H.h[H.rules[p[1]].obj]) > 1
            /\ ~contains(g, H.h[H.rules[p[1]].obj][p[2]])}, LAMBDA mixed :
       IF mixed = {} THEN run
       ELSE Bind(CHOOSE q \in mixed :
                    \A o \in mixed : q[1] < o[1] \/ (q[1] = o[1] /\ q[2] <= o[2]),
                 LAMBDA p :
            Bind(H.h[H.rules[p[1]].obj][p[2]], LAMBDA sym :
            Bind(syms(deref(H)), LAMBDA excluding :
            Bind(unique(excluding, upper(sym)), LAMBDA new_name :
            Bind(h_setitem_str(H, new_name.val, sym), LAMBDA ins :
               Run(ins.H,
                   IF ins.err # "ok" THEN ins.err ELSE "NameError",
                   Append(run.log, LogEntry(new_name.val, excluding, run.log))))))))))

\* "make all rules binary": one turn of the while loop on rule r
binarize_step(run, r) ==
    Bind(run.H, LAMBDA H :
    Bind(H.rules[r].obj, LAMBDA obj :
    Bind(H.h[obj][1], LAMBDA first :
    Bind(H.h[obj][2], LAMBDA second :
    Bind([H.h EXCEPT ![obj] = SubSeq(H.h[obj], 3, Len(H.h[obj]))], LAMBDA popped :
    Bind(syms(deref(HGrammar(popped, H.rules, H.start))) \cup {first, second},
         LAMBDA taken :
    Bind(unique(taken, upper(first)), LAMBDA new_name :
    Bind([popped EXCEPT ![obj] = <<new_name.val>> \o popped[obj]], LAMBDA inserted :
    Bind(list_new(inserted, <<first, second>>), LAMBDA pair :
    Bind(h_setitem_list(HGrammar(pair.h, H.rules, H.start), new_name.val, pair.obj),
         LAMBDA ins :
       Run(ins.H, ins.err,
           Append(run.log, LogEntry(new_name.val, taken, run.log)))))))))))))

RECURSIVE binarize(_, _)
binarize(run, r) ==
    IF run.err # "ok" \/ r > Len(run.H.rules) THEN run
    ELSE IF Len(run.H.h[run.H.rules[r].obj]) > 2
         THEN Bind(binarize_step(run, r), LAMBDA run1 : binarize(run1, r))
         ELSE binarize(run, r + 1)

\* minimize on the grammar under construction: the kept rules are the
\* same rule objects
h_minimize(run) ==
    Bind(run.H, LAMBDA H :
    Bind(deref(H), LAMBDA d :
    Bind(minimize(d), LAMBDA m :
    Bind(minimize_unmarked(d), LAMBDA unmarked :
       IF m.err # "ok" THEN Run(H, m.err, run.log)
       ELSE Run(HGrammar(H.h, SelectSeq2(H.rules, LAMBDA r : r.left \notin unmarked),
                         H.start),
                "ok", run.log)))))

to_cnf_run(g) ==
    Bind(expand_unit_productions(g), LAMBDA e :
    Bind(Run(e.H, e.err, <<>>), LAMBDA r1 :
    Bind(IF r1.err = "ok" THEN remove_mixed_terminals(g, r1) ELSE r1, LAMBDA r2 :
    Bind(IF r2.err = "ok" THEN binarize(r2, 1) ELSE r2, LAMBDA r3 :
       IF r3.err = "ok" THEN h_minimize(r3) ELSE r3))))

\* the value to_cnf returns (when err = "ok")
to_cnf(g) == Bind(to_cnf_run(g), LAMBDA run : [err |-> run.err, g |-> deref(run.H)])

\* the source grammar as it stands after the run
source_after(g, run) ==
    Grammar([i \in 1..Len(g.rules) |->
                [left |-> g.rules[i].left, right |-> run.H.h[i],
                 regexes |-> g.rules[i].regexes]],
            g.start)

\* the list objects of the source grammar that the result refers to
shared_lists(g, run) ==
    {run.H.rules[k].obj : k \in 1..Len(run.H.rules)} \cap (1..Len(g.rules))

(***************************************************************************)
(* Parse trees.  A Python tree is the tuple (LABEL, CHILD0, ...) whose     *)
(* children are trees or tokens; here a tree is a record with its label    *)
(* and its children, and a token child is a Leaf.                          *)
(***************************************************************************)
Leaf(token) == [leaf |-> TRUE, label |-> token, kids |-> <<>>]

Node(label, kids) == [leaf |-> FALSE, label |-> label, kids |-> kids]

\* tree(iterable, *children)
tree(iterable, children) == {Node(elem, children) : elem \in iterable}

(***************************************************************************)
(* cky_parse.  The table is built span by span; tab maps the pair (row,    *)
(* col) to the set in table[row][col].  A result holds the error raised    *)
(* (or "ok"), the trees returned and the cells filled before the call     *)
(* ended; the cell in which get_lhs raised is not among them.              *)
(***************************************************************************)
\* table[row][col] for col - row >= 2, from the cells of the shorter spans
cky_cell(g, tab, row, col) ==
    Bind(UNION {tab[<<row, k>>] \X tab[<<k, col>>] : k \in (row + 1)..(col - 1)},
         LAMBDA pairs :
    Bind([p \in pairs |-> get_lhs(g, Lst(<<p[1].label, p[2].label>>))], LAMBDA look :
       IF \E p \in pairs : look[p].err # "ok"
       THEN [err |-> "IndexError", val |-> {}]
       ELSE [err |-> "ok",
             val |-> UNION {tree(look[p].val, <<p[1], p[2]>>) : p \in pairs}]))

\* the two nested loops over col and row; row = col - 1 is the base case
RECURSIVE cky_fill(_, _, _, _, _, _)
cky_fill(g, ws, tab, cells, col, row) ==
    IF col > Len(ws) THEN [err |-> "ok", tab |-> tab, cells |-> cells]
    ELSE IF row < 0 THEN cky_fill(g, ws, tab, cells, col + 1, col)
    ELSE Bind(IF row = col - 1
              THEN Bind(get_lhs(g, Str(ws[col])), LAMBDA l :
                      [err |-> l.err, val |-> tree(l.val, <<Leaf(ws[col])>>)])
              ELSE cky_cell(g, tab, row, col), LAMBDA c :
            IF c.err # "ok" THEN [err |-> c.err, tab |-> tab, cells |-> cells]
            ELSE Bind([tab EXCEPT ![<<row, col>>] = c.val], LAMBDA tab1 :
                 Bind(cells \cup {<<row, col>>}, LAMBDA cells1 :
                    cky_fill(g, ws, tab1, cells1, col, row - 1))))

cky_parse(g, sent, symbol) ==
    IF ~in_cnf(g) THEN [err |-> "ValueError", val |-> {}, cells |-> {}]
    ELSE Bind(IF symbol = None THEN g.start ELSE symbol, LAMBDA sym :
         Bind(default_tokenizer(sent), LAMBDA ws :
         Bind(Len(ws), LAMBDA n :
         Bind([p \in (0..n) \X (0..n) |-> {}], LAMBDA empty :
         Bind(cky_fill(g, ws, empty, {}, 1, 0), LAMBDA t :
            IF t.err # "ok" THEN [err |-> t.err, val |-> {}, cells |-> t.cells]
            ELSE [err |-> "ok",
                  val |-> {tr \in t.tab[<<0, n>>] : tr.label = sym},
                  cells |-> t.cells])))))

(***************************************************************************)
(* EarleyState.  A constituent is a token or a completed state.            *)
(***************************************************************************)
EarleyState(rule, progress, origin, constituents) ==
    [rule |-> rule, progress |-> progress, origin |-> origin,
     constituents |-> constituents]

TokC(token) == [tok |-> TRUE, val |-> token]
StateC(state) == [tok |-> FALSE, val |-> state]

make_progress(state, constituent) ==
    EarleyState(state.rule, state.progress + 1, state.origin,
                Append(state.constituents, constituent))

finished(state) == state.progress = Len(state.rule.right)

\* next(): the symbol after the dot
state_next(state) == state.rule.right[state.progress + 1]

RECURSIVE to_tree(_)
to_tree(state) ==
    Node(state.rule.left,
         [k \in 1..Len(state.constituents) |->
            IF state.constituents[k].tok THEN Leaf(state.constituents[k].val)
            ELSE to_tree(state.constituents[k].val)])

\* EarleyState.__eq__: rules are compared by CFRule.__eq__ (the two sides),
\* constituents item by item
RECURSIVE state_key(_)
state_key(state) ==
    [left |-> state.rule.left, right |-> state.rule.right,
     progress |-> state.progress, origin |-> state.origin,
     constituents |-> [k \in 1..Len(state.constituents) |->
                         IF state.constituents[k].tok THEN state.constituents[k]
                         ELSE StateC(state_key(state.constituents[k].val))]]

state_eq(s, t) == state_key(s) = state_key(t)

in_column(s, column) == \E k \in 1..Len(column) : state_eq(s, column[k])

\* the left sides of the unit steps at the top of the state's derivation
RECURSIVE unit_lefts(_)
unit_lefts(state) ==
    IF /\ Len(state.rule.right) = 1
       /\ Len(state.constituents) = 1
       /\ ~state.constituents[1].tok
    THEN <<state.rule.left>> \o unit_lefts(state.constituents[1].val)
    ELSE <<>>

\* the derivation of the state goes round a cycle of unit rules.  Such a
\* state is completed into a new one with one more turn of the cycle, and
\* that one again: the column it is in never ends, and the comparison of the
\* ever deeper states in `s not in chart[i]` (EarleyState.__eq__ calls
\* itself on the constituents) ends the call with RecursionError.
pumped(state) ==
    \E a, b \in 1..Len(unit_lefts(state)) :
        a < b /\ unit_lefts(state)[a] = unit_lefts(state)[b]

\* the value that stands for the call having ended with RecursionError
Overflow == <<>>

\* chart[i] of the code is ch[i + 1]
append_new(ch, i, s) ==
    IF pumped(s) THEN Overflow
    ELSE IF in_column(s, ch[i + 1]) THEN ch
    ELSE [ch EXCEPT ![i + 1] = Append(@, s)]

RECURSIVE predict_loop(_, _, _, _, _)
predict_loop(ch, i, symbol, g, r) ==
    IF r > Len(g.rules) THEN ch
    ELSE IF g.rules[r].left = symbol
         THEN Bind(append_new(ch, i, EarleyState(g.rules[r], 0, i, <<>>)), LAMBDA ch1 :
                 IF ch1 = Overflow THEN Overflow
                 ELSE predict_loop(ch1, i, symbol, g, r + 1))
         ELSE predict_loop(ch, i, symbol, g, r + 1)

\* a variant that predicts the first rule of the symbol only
earley_predict_first(ch, i, state, g) ==
    IF \E r \in 1..Len(g.rules) : g.rules[r].left = state_next(state)
    THEN append_new(ch, i,
            EarleyState(g.rules[CHOOSE r \in 1..Len(g.rules) :
                                   /\ g.rules[r].left = state_next(state)
                                   /\ \A q \in 1..(r - 1) :
                                         g.rules[q].left # state_next(state)],
                        0, i, <<>>))
    ELSE ch

earley_predict(ch, i, state, g) == predict_loop(ch, i, state_next(state), g, 1)

\* the answer of state.rule.matches(words[i], state.progress)
scan_match(state, ws, i) == matches_at(state.rule, ws[i + 1], state.progress + 1)

earley_scan(ch, i, state, ws) ==
    IF scan_match(state, ws, i) = "T"
    THEN append_new(ch, i + 1, make_progress(state, TokC(ws[i + 1])))
    ELSE ch

\* the loop over chart[state.origin] sees the states appended to it
\* while it runs
RECURSIVE complete_loop(_, _, _, _)
complete_loop(ch, i, state, k) ==
    IF k > Len(ch[state.origin + 1]) THEN ch
    ELSE Bind(ch[state.origin + 1][k], LAMBDA other :
            IF ~finished(other) /\ state_next(other) = state.rule.left
            THEN Bind(append_new(ch, i, make_progress(other, StateC(state))),
                      LAMBDA ch1 : IF ch1 = Overflow THEN Overflow
                                   ELSE complete_loop(ch1, i, state, k + 1))
            ELSE complete_loop(ch, i, state, k + 1))

earley_complete(ch, i, state) == complete_loop(ch, i, state, 1)

\* the dummy start state
DummyLeft == <<"y">>

dummy_state(symbol) == EarleyState(CFRule(DummyLeft, <<symbol>>), 0, 0, <<>>)

\* the trees collected from the last column, in its order
collect(column, symbol) ==
    LET Ok(st) == st.rule.left = symbol /\ st.origin = 0 /\ finished(st)
        sel == SelectSeq2(column, Ok)
    IN  [k \in 1..Len(sel) |-> to_tree(sel[k])]

(***************************************************************************)
(* The parser specification: earley_parse runs step by step on a grammar   *)
(* and a sentence drawn from bounded families, one step per state taken    *)
(* from the chart; when it has returned, cky_parse(to_cnf(G), s) is        *)
(* computed on the same inputs.                                            *)
(*                                                                         *)
(* A grammar of the family is built by CFGrammar.__init__ from at most     *)
(* MaxLines of the lines below, kept in their order.                       *)
(***************************************************************************)
MaxLines == 3
MaxSentLen == 3

Line(lhs, rhs) == [lhs |-> lhs, rhs |-> rhs]

ParseLines ==
    << Line(<<"S">>, <<"A", " ", "B">>),
       Line(<<"S">>, <<"A", " ", "|", " ", "B">>),
       Line(<<"S">>, <<"S", " ", "S">>),
       Line(<<"S">>, <<"a">>),
       Line(<<"A">>, <<"a">>),
       Line(<<"A">>, <<"/", "a", "+", "/">>),
       Line(<<"B">>, <<"b">>),
       Line(<<"B">>, <<"a">>),
       Line(<<"A">>, <<"A">>),
       Line(<<"S">>, <<"a", " ", "B">>) >>

\* Scenario B: EXPR -> EXPR OP EXPR | NUMBER, NUMBER -> /x+/, OP -> a | b
\* with the sentence x a x b x
ScenarioB ==
    << Line(<<"E">>, <<"E", " ", "O", " ", "E", " ", "|", " ", "N">>),
       Line(<<"N">>, <<"/", "x", "+", "/">>),
       Line(<<"O">>, <<"a", " ", "|", " ", "b">>) >>

ScenarioBSentence == <<<<"x">>, <<"a">>, <<"x">>, <<"b">>, <<"x">>>>

\* CFGrammar.__init__ on lines "LHS -> RHS": self[lhs] = rhs for each line
RECURSIVE init_lines(_, _)
init_lines(g, lines) ==
    IF lines = <<>> THEN g
    ELSE Bind(setitem(g, Head(lines).lhs, Str(Head(lines).rhs)).g, LAMBDA g1 :
         Bind(Tail(lines), LAMBDA rest : init_lines(g1, rest)))

CFGrammar(lines) == init_lines(EmptyGrammar, lines)

Pick(lines, chosen) ==
    LET In(k) == k \in chosen
        ks == SelectSeq2([k \in 1..Len(lines) |-> k], In)
    IN  [k \in 1..Len(ks) |-> lines[ks[k]]]

ParseGrammars ==
    {CFGrammar(Pick(ParseLines, c)) :
        c \in {d \in SUBSET (1..Len(ParseLines)) : Cardinality(d) <= MaxLines}}

Tokens == {<<"a">>, <<"b">>, <<"A">>}

Sentences == SeqsUpTo(Tokens, MaxSentLen)

ParseInputs ==
    (ParseGrammars \X Sentences) \cup {<<CFGrammar(ScenarioB), ScenarioBSentence>>}

NoOut == [op |-> "none"]

G == Grammar(rules, start)

InitParse ==
    /\ \E inp \in ParseInputs :
          /\ rules = inp[1].rules
          /\ start = inp[1].start
          /\ words = inp[2]
    /\ out = NoOut
    /\ chart = <<>>
    /\ coli = 0
    /\ pos = 1
    /\ pc = "call"
    /\ tagged_text = <<>>

\* earley_parse up to the loop: the chart with the dummy start state.
\* CFRule('y', [None]) raises AttributeError when the grammar has no
\* start symbol.
EarleyBegin ==
    /\ pc = "call"
    /\ IF start = None
       THEN /\ out' = [op |-> "earley_parse", err |-> "AttributeError", val |-> <<>>]
            /\ pc' = "done"
            /\ UNCHANGED chart
       ELSE /\ chart' = [k \in 1..(Len(words) + 1) |->
                            IF k = 1 THEN <<dummy_state(start)>> ELSE <<>>]
            /\ pc' = "run"
            /\ UNCHANGED out
    /\ UNCHANGED <<rules, start, words, coli, pos>>
    /\ UNCHANGED tagged_text

Running ==
    /\ pc = "run"
    /\ pos <= Len(chart[coli + 1])

\* the step after chart operation ch: the next state of the column, or the
\* end of the call when the operation raised
EarleyStep(ch) ==
    IF ch = Overflow
    THEN /\ out' = [op |-> "earley_parse", err |-> "RecursionError", val |-> <<>>]
         /\ pc' = "done"
         /\ UNCHANGED <<chart, pos>>
    ELSE /\ chart' = ch
         /\ pos' = pos + 1
         /\ UNCHANGED <<out, pc>>

Current == chart[coli + 1][pos]

EarleyPredict ==
    /\ Running
    /\ ~finished(Current)
    /\ contains(G, state_next(Current))
    /\ \E ch \in {earley_predict(chart, coli, Current, G)} : EarleyStep(ch)
    /\ UNCHANGED <<rules, start, words, coli>>
    /\ UNCHANGED tagged_text

EarleyScan ==
    /\ Running
    /\ ~finished(Current)
    /\ ~contains(G, state_next(Current))
    /\ coli < Len(words)
    /\ IF scan_match(Current, words, coli) = "IndexError"
       THEN /\ out' = [op |-> "earley_parse", err |-> "IndexError", val |-> <<>>]
            /\ pc' = "done"
            /\ UNCHANGED <<chart, pos>>
       ELSE \E ch \in {earley_scan(chart, coli, Current, words)} : EarleyStep(ch)
    /\ UNCHANGED <<rules, start, words, coli>>
    /\ UNCHANGED tagged_text

\* an unfinished state that expects a terminal in the last column
EarleySkip ==
    /\ Running
    /\ ~finished(Current)
    /\ ~contains(G, state_next(Current))
    /\ coli >= Len(words)
    /\ pos' = pos + 1
    /\ UNCHANGED <<rules, start, out, words, chart, coli, pc>>
    /\ UNCHANGED tagged_text

EarleyComplete ==
    /\ Running
    /\ finished(Current)
    /\ \E ch \in {earley_complete(chart, coli, Current)} : EarleyStep(ch)
    /\ UNCHANGED <<rules, start, words, coli>>
    /\ UNCHANGED tagged_text

EarleyNextColumn ==
    /\ pc = "run"
    /\ pos > Len(chart[coli + 1])
    /\ coli < Len(words)
    /\ coli' = coli + 1
    /\ pos' = 1
    /\ UNCHANGED <<rules, start, out, words, chart, pc>>
    /\ UNCHANGED tagged_text

EarleyReturn ==
    /\ pc = "run"
    /\ pos > Len(chart[coli + 1])
    /\ coli = Len(words)
    /\ out' = [op |-> "earley_parse", err |-> "ok",
               val |-> collect(chart[Len(words) + 1], start)]
    /\ pc' = "done"
    /\ UNCHANGED <<rules, start, words, chart, coli, pos>>
    /\ UNCHANGED tagged_text

\* cky_parse(G, words) on the same inputs, after earley_parse has returned
CkyDirect ==
    /\ pc = "done"
    /\ \E direct \in {cky_parse(G, Lst(words), None)} :
          out' = [op |-> "parse", earley |-> [err |-> out.err, val |-> out.val],
                  direct |-> direct,
                  cnf_err |-> "none",
                  oncnf |-> [err |-> "none", val |-> {}, cells |-> {}]]
    /\ pc' = "direct"
    /\ UNCHANGED <<rules, start, words, chart, coli, pos>>
    /\ UNCHANGED tagged_text

\* cky_parse(to_cnf(G), words)
CkyOnCnf ==
    /\ pc = "direct"
    /\ \E cnf \in {to_cnf(G)} :
       \E oncnf \in {IF cnf.err = "ok" THEN cky_parse(cnf.g, Lst(words), None)
                     ELSE [err |-> "none", val |-> {}, cells |-> {}]} :
          out' = [out EXCEPT !.cnf_err = cnf.err, !.oncnf = oncnf]
    /\ pc' = "compared"
    /\ UNCHANGED <<rules, start, words, chart, coli, pos>>
    /\ UNCHANGED tagged_text

NextParse ==
    \/ EarleyBegin
    \/ EarleyPredict
    \/ EarleyScan
    \/ EarleySkip
    \/ EarleyComplete
    \/ EarleyNextColumn
    \/ EarleyReturn
    \/ CkyDirect
    \/ CkyOnCnf

SpecParse == InitParse /\ [][NextParse]_vars

(***************************************************************************)
(* The rule-store specification: one grammar object, built and changed by  *)
(* the public operations of CFGrammar, and queried by get_lhs, to_cnf and  *)
(* cky_parse.  out records the last call: its arguments, the error it      *)
(* raised (or "ok") and what it returned.                                  *)
(***************************************************************************)
MaxRules == 2

StoreLhs == {<<"S">>, <<"A">>}

RhsInputs ==
    { Str(<<"a">>),
      Str(<<"A", " ", "A", " ", "A">>),
      Str(<<"a", " ", "A">>),
      Str(<<"/", "A", "/", " ", "A">>),
      Str(<<"a", "|">>),
      Str(<<"|", "a">>),
      Str(<<"a", "|", "|", "b">>),
      Str(<<>>),
      Lst(<<>>),
      Lst(<<<<"A">>>>) }

KeyInputs ==
    { Str(<<"a">>), Str(<<"A">>), Str(<<"a", " ", "A">>), Str(<<"A", " ", "A">>),
      Str(<<>>), Lst(<<<<"A">>, <<"A">>, <<"A">>>>) }

SentInputs ==
    { Lst(<<>>), Lst(<<<<"a">>>>), Lst(<<<<"A">>>>), Lst(<<<<"a">>, <<"a">>>>),
      Str(<<"a", " ", "a", " ", "a">>) }

DelInputs ==
    { Slice(None, FALSE, Lst(<<>>)), Slice(<<"S">>, FALSE, Lst(<<>>)),
      Slice(None, TRUE, Str(<<"a">>)), Slice(<<"A">>, TRUE, Str(<<"a">>)),
      NotSlice }

RenameInputs == {<<<<"S">>, <<"B">>>>}

StartInputs == {<<"A">>}

Init ==
    /\ rules = <<>>
    /\ start = None
    /\ out = NoOut
    /\ words = <<>>
    /\ chart = <<>>
    /\ coli = 0
    /\ pos = 1
    /\ pc = "idle"
    /\ tagged_text = <<>>

\* grammar[lhs] = rhs
SetItem ==
    /\ Len(rules) < MaxRules
    /\ \E lhs \in StoreLhs, rhs \in RhsInputs :
          \E r \in {setitem(G, lhs, rhs)} :
              /\ rules' = r.g.rules
              /\ start' = r.g.start
              /\ out' = [op |-> "setitem", lhs |-> lhs, rhs |-> rhs, err |-> r.err,
                          was |-> start]
    /\ UNCHANGED earleyVars
    /\ UNCHANGED tagged_text

\* del grammar[key]
DelItem ==
    /\ \E key \in DelInputs :
          \E r \in {delitem(G, key)} :
              /\ rules' = r.g.rules
              /\ start' = r.g.start
              /\ out' = [op |-> "delitem", key |-> key, err |-> r.err]
    /\ UNCHANGED earleyVars
    /\ UNCHANGED tagged_text

\* grammar.rename(old, new)
Rename ==
    /\ \E p \in RenameInputs :
          \E r \in {rename(G, p[1], p[2])} :
              /\ rules' = r.rules
              /\ start' = r.start
              /\ out' = [op |-> "rename", old |-> p[1], new |-> p[2], err |-> "ok"]
    /\ UNCHANGED earleyVars
    /\ UNCHANGED tagged_text

\* grammar.minimize()
Minimize ==
    /\ \E r \in {minimize(G)} :
           /\ rules' = r.g.rules
           /\ start' = r.g.start
           /\ out' = [op |-> "minimize", err |-> r.err,
                      removed |-> Len(rules) - Len(r.g.rules)]
    /\ UNCHANGED earleyVars
    /\ UNCHANGED tagged_text

\* grammar.start = sym
SetStart ==
    /\ \E sym \in StartInputs :
          /\ start' = sym
          /\ out' = [op |-> "set_start", sym |-> sym, err |-> "ok"]
    /\ UNCHANGED <<rules, words, chart, coli, pos, pc>>
    /\ UNCHANGED tagged_text

\* grammar.get_lhs(key)
GetLhs ==
    /\ \E key \in KeyInputs :
          \E r \in {get_lhs(G, key)} :
              out' = [op |-> "get_lhs", key |-> key, err |-> r.err, val |-> r.val]
    /\ UNCHANGED <<rules, start, words, chart, coli, pos, pc>>
    /\ UNCHANGED tagged_text

\* to_cnf(grammar)
ToCnf ==
    /\ \E run \in {to_cnf_run(G)} :
           out' = [op |-> "to_cnf", err |-> run.err, ret |-> deref(run.H),
                   after |-> source_after(G, run), shared |-> shared_lists(G, run),
                   log |-> run.log]
    /\ UNCHANGED <<rules, start, words, chart, coli, pos, pc>>
    /\ UNCHANGED tagged_text

\* expand_unit_productions(grammar)
ExpandUnit ==
    /\ \E e \in {expand_unit_productions(G)} :
           out' = [op |-> "expand", err |-> e.err, ret |-> deref(e.H)]
    /\ UNCHANGED <<rules, start, words, chart, coli, pos, pc>>
    /\ UNCHANGED tagged_text

\* cky_parse(grammar, sent)
CkyParse ==
    /\ \E sent \in SentInputs :
          \E r \in {cky_parse(G, sent, None)} :
              out' = [op |-> "cky_parse", sent |-> sent, err |-> r.err, val |-> r.val,
                      cells |-> r.cells]
    /\ UNCHANGED <<rules, start, words, chart, coli, pos, pc>>
    /\ UNCHANGED tagged_text

Next ==
    \/ SetItem
    \/ DelItem
    \/ Rename
    \/ Minimize
    \/ SetStart
    \/ GetLhs
    \/ ToCnf
    \/ ExpandUnit
    \/ CkyParse

Spec == Init /\ [][Next]_vars

(***************************************************************************)
(* The tagger's rewrite rule (tbl.py).  A tag and a word are strings,      *)
(* modelled like the symbols; a tagged text is a list of (word, tag)       *)
(* pairs.  Transform(orig, new, before) is the rule orig -> new / before _ *)
(* Lists are objects: th maps an object to its items, so that a copy and   *)
(* an update in place are told apart.                                      *)
(***************************************************************************)
Transform(orig, new, before) == [orig |-> orig, new |-> new, before |-> before]

Pair(word, tag) == [word |-> word, tag |-> tag]

\* tagged_text[:]: a new list object with the same items
slice_copy(th, obj) == [th |-> Append(th, th[obj]), obj |-> Len(th) + 1]

\* a variant that compares 'before' with the tag the text had before the pass
RECURSIVE mutate_loop_static(_, _, _, _)
mutate_loop_static(self, text, i, prev_tag) ==
    IF i > Len(text) THEN text
    ELSE IF prev_tag = self.before /\ text[i].tag = self.orig
         THEN mutate_loop_static(self, [text EXCEPT ![i] = Pair(text[i].word, self.new)],
                                 i + 1, text[i].tag)
         ELSE mutate_loop_static(self, text, i + 1, text[i].tag)

\* the loop of Transform.mutate from position i on; positions are 1-based
RECURSIVE mutate_loop(_, _, _, _)
mutate_loop(self, text, i, prev_tag) ==
    IF i > Len(text) THEN text
    ELSE IF prev_tag = self.before /\ text[i].tag = self.orig
         THEN mutate_loop(self, [text EXCEPT ![i] = Pair(text[i].word, self.new)],
                          i + 1, self.new)
         ELSE mutate_loop(self, text, i + 1, text[i].tag)

\* Transform.mutate(tagged_text): the list object is updated in place
mutate(self, th, obj) == [th EXCEPT ![obj] = mutate_loop(self, th[obj], 1, None)]

\* Transform.__call__(tagged_text): the objects after the call and the
\* object returned
transform_call(self, th, obj) ==
    Bind(slice_copy(th, obj), LAMBDA tagged_text_copy :
        [th |-> mutate(self, tagged_text_copy.th, tagged_text_copy.obj),
         obj |-> tagged_text_copy.obj])

MaxTextLen == 3

NN == <<"N", "N">>
VB == <<"V", "B">>
TO == <<"T", "O">>
Tags == {NN, VB, TO}

WordInputs == {<<"t", "o">>, <<"r", "a", "c", "e">>}

TextInputs == SeqsUpTo({Pair(w, t) : w \in WordInputs, t \in Tags}, MaxTextLen)

TransformInputs == {Transform(o, n, b) : o \in Tags, n \in Tags, b \in Tags}

InitTbl ==
    /\ tagged_text \in TextInputs
    /\ out = NoOut
    /\ rules = <<>>
    /\ start = None
    /\ words = <<>>
    /\ chart = <<>>
    /\ coli = 0
    /\ pos = 1
    /\ pc = "idle"

\* ret = transform(tagged_text); the caller's list is object 1
TransformCall ==
    /\ \E self \in TransformInputs :
          \E r \in {transform_call(self, <<tagged_text>>, 1)} :
              /\ tagged_text' = r.th[1]
              /\ out' = [op |-> "call", self |-> self, arg |-> tagged_text,
                         ret |-> r.th[r.obj], same |-> (r.obj = 1)]
    /\ UNCHANGED <<rules, start, words, chart, coli, pos, pc>>

\* transform.mutate(tagged_text)
TransformMutate ==
    /\ \E self \in TransformInputs :
          \E th \in {mutate(self, <<tagged_text>>, 1)} :
              /\ tagged_text' = th[1]
              /\ out' = [op |-> "mutate", self |-> self, arg |-> tagged_text]
    /\ UNCHANGED <<rules, start, words, chart, coli, pos, pc>>

NextTbl ==
    \/ TransformCall
    \/ TransformMutate

SpecTbl == InitTbl /\ [][NextTbl]_vars

(***************************************************************************)
(* Properties.                                                             *)
(***************************************************************************)
\* a rule whose right side is neither exactly one terminal nor exactly two
\* nonterminals; a nonterminal is a left side of the grammar
NotCnfShaped(g, r) ==
    ~ \/ Len(r.right) = 1 /\ r.right[1] \notin Lefts(g)
      \/ Len(r.right) = 2 /\ r.right[1] \in Lefts(g) /\ r.right[2] \in Lefts(g)

HasNotCnfShaped(g) == \E i \in 1..Len(g.rules) : NotCnfShaped(g, g.rules[i])

\* C2: cky_parse on a grammar with a rule that is neither one terminal nor
\* two nonterminals raises the precondition error, returns nothing and has
\* assigned no table cell, whatever the sentence.
C2_CkyRejectsNonCnf ==
    (out.op = "cky_parse" /\ HasNotCnfShaped(G)) =>
        (out.err = "ValueError" /\ out.val = {} /\ out.cells = {})

\* a non-CNF grammar was parsed with the empty sentence, and with a longer one
C2_Witness ==
    /\ out.op = "cky_parse"
    /\ HasNotCnfShaped(G)
    /\ out.sent = Lst(<<>>)
    /\ out.err = "ValueError"

\* C5: to_cnf leaves its argument as it was (same rules in the same order,
\* same right sides, same start symbol), and the grammar it returns holds
\* none of the argument's right-side lists.
C5_ToCnfLeavesSource ==
    out.op = "to_cnf" =>
        /\ out.after = G
        /\ (out.err = "ok" => out.shared = {})

\* to_cnf returned after binarizing a rule in place
C5_Witness ==
    /\ out.op = "to_cnf"
    /\ out.err = "ok"
    /\ Len(out.log) > 0
    /\ out.after = G
    /\ out.ret # G

(***************************************************************************)
(* Derivations.  A nonterminal is a left side of the grammar; any other    *)
(* symbol is a terminal, matched by its pattern when it is written /.../   *)
(* and by equality otherwise.  A derivation of ws from sym is a rule of    *)
(* sym with one child per right-hand symbol: the token for a terminal, a   *)
(* derivation for a nonterminal.  No right side is empty, so every child   *)
(* spans at least one token; d counts the unit rules applied in a row and  *)
(* cuts a chain that has gone through every left side.                     *)
(***************************************************************************)
TermMatch(sym, token) ==
    IF compile(sym).on THEN RegexMatch(compile(sym).body, token) ELSE sym = token

RECURSIVE Derivs(_, _, _, _)
RECURSIVE Covers(_, _, _, _)
Derivs(g, sym, ws, d) ==
    IF d > Cardinality(Lefts(g)) THEN {}
    ELSE UNION {{[rule |-> r, kids |-> ks] :
                    ks \in Covers(g, g.rules[r].right, ws,
                                  IF Len(g.rules[r].right) = 1 THEN d + 1 ELSE 0)} :
                r \in {i \in 1..Len(g.rules) : g.rules[i].left = sym}}

Covers(g, right, ws, d) ==
    IF right = <<>> THEN (IF ws = <<>> THEN {<<>>} ELSE {})
    ELSE IF Len(ws) < Len(right) THEN {}
    ELSE IF Head(right) \in Lefts(g)
    THEN UNION {{<<t>> \o rest :
                    t \in Derivs(g, Head(right), SubSeq(ws, 1, j), d),
                    rest \in Covers(g, Tail(right), SubSeq(ws, j + 1, Len(ws)), 0)} :
                j \in 1..(Len(ws) - Len(right) + 1)}
    ELSE IF TermMatch(Head(right), ws[1])
    THEN {<<Leaf(ws[1])>> \o rest : rest \in Covers(g, Tail(right), Tail(ws), 0)}
    ELSE {}

\* the derivations of the sentence from the start symbol
Derivations(g, ws) == Derivs(g, g.start, ws, 0)

Accepts(g, ws) == Derivations(g, ws) # {}

\* the left sides reached from nt by n or fewer unit rules
RECURSIVE UnitReach(_, _, _)
UnitReach(g, nts, n) ==
    IF n = 0 THEN nts
    ELSE UnitReach(g, nts \cup {g.rules[i].right[1] :
                                  i \in {j \in 1..Len(g.rules) :
                                            /\ g.rules[j].left \in nts
                                            /\ Len(g.rules[j].right) = 1
                                            /\ g.rules[j].right[1] \in Lefts(g)}},
                   n - 1)

\* some left side derives itself by unit rules alone: its sentences have
\* infinitely many derivations
HasUnitCycle(g) ==
    \E i \in 1..Len(g.rules) :
        /\ Len(g.rules[i].right) = 1
        /\ g.rules[i].right[1] \in Lefts(g)
        /\ g.rules[i].left \in UnitReach(g, {g.rules[i].right[1]}, Len(g.rules))

\* C1: once both parsers have answered, cky_parse(to_cnf(G), s) returned a
\* non-empty forest exactly when earley_parse(G, s) did.
C1_ParsersAgree ==
    (pc = "compared" /\ rules # <<>>) =>
        ((out.cnf_err = "ok" /\ out.oncnf.err = "ok" /\ out.oncnf.val # {})
            <=> (out.earley.err = "ok" /\ out.earley.val # <<>>))

\* C3: for a grammar in which the sentence has k derivations from the start
\* symbol, earley_parse returns k trees, all distinct, and
\* cky_parse(to_cnf(G), s) returns k distinct trees.  Grammars with a unit
\* cycle are left out (their sentences have no finite count), and so are
\* the grammars on which to_cnf raises.
C3_DerivationCount ==
    (pc = "compared" /\ rules # <<>> /\ ~HasUnitCycle(G) /\ out.cnf_err = "ok") =>
        \E k \in {Cardinality(Derivations(G, words))} :
            /\ out.earley.err = "ok"
            /\ Len(out.earley.val) = k
            /\ Cardinality(Range(out.earley.val)) = k
            /\ out.oncnf.err = "ok"
            /\ Cardinality(out.oncnf.val) = k

\* C8: a sentence the grammar does not accept gets an empty forest and no
\* error, from earley_parse on any grammar and from cky_parse on a grammar
\* in Chomsky normal form.
C8_RejectedSentenceEmptyForest ==
    (pc = "direct" /\ rules # <<>> /\ ~Accepts(G, words)) =>
        /\ out.earley.err = "ok" /\ out.earley.val = <<>>
        /\ ~HasNotCnfShaped(G) => (out.direct.err = "ok" /\ out.direct.val = {})

\* C4: to_cnf returns, and the grammar it returns is in Chomsky normal
\* form: in_cnf holds, every right side is one terminal or two
\* nonterminals, and a second conversion gives such a grammar again.
\* Grammars with a unit cycle are left out.
C4_ToCnfIsCnf ==
    (out.op = "to_cnf" /\ ~HasUnitCycle(G)) =>
        /\ out.err = "ok"
        /\ in_cnf(out.ret) /\ ~HasNotCnfShaped(out.ret)
        /\ \E again \in {to_cnf(out.ret)} :
              again.err = "ok" /\ in_cnf(again.g) /\ ~HasNotCnfShaped(again.g)

\* every symbol of a grammar: the left sides and the right-hand symbols,
\* patterns included
AllSymbols(g) ==
    Lefts(g) \cup UNION {Range(g.rules[i].right) : i \in 1..Len(g.rules)}

\* C6: every name to_cnf obtained from unique differs from every symbol of
\* the source grammar, from the names obtained before it and from every
\* member of the set unique was told to avoid.
C6_FreshNames ==
    out.op = "to_cnf" =>
        \A k \in 1..Len(out.log) :
            /\ out.log[k].name \notin AllSymbols(G)
            /\ out.log[k].name \notin out.log[k].earlier
            /\ out.log[k].name \notin out.log[k].excluding

\* the number of symbols in each alternative of a right-hand-side text:
\* the alternatives are separated by the PIPE tokens
RECURSIVE AltSizes(_, _, _, _)
AltSizes(text, p, n, acc) ==
    IF p > Len(text) THEN Append(acc, n)
    ELSE IF TokenAt(text, p).kind = "PIPE"
         THEN AltSizes(text, TokenAt(text, p).end + 1, 0, Append(acc, n))
         ELSE AltSizes(text, TokenAt(text, p).end + 1,
                       IF TokenAt(text, p).kind \in {"REGEX", "QUOTE", "WORD"}
                       THEN n + 1 ELSE n,
                       acc)

HasEmptyAlternative(text) ==
    \E k \in 1..Len(AltSizes(text, 1, 0, <<>>)) : AltSizes(text, 1, 0, <<>>)[k] = 0

\* C7: an insertion from a text with an empty alternative (a leading, doubled
\* or trailing pipe, or an empty text) raises the construction error.
C7_EmptyAlternativeRejected ==
    (out.op = "setitem" /\ out.rhs.str /\ HasEmptyAlternative(out.rhs.val)) =>
        out.err = "ValueError"

\* the left sides of the rules whose right side has as many positions as
\* the key has tokens, each position matching its token by the compiled
\* pattern or by equality
WholeMatches(g, toks) ==
    {g.rules[i].left :
        i \in {j \in 1..Len(g.rules) :
                  /\ Len(g.rules[j].right) = Len(toks)
                  /\ \A k \in 1..Len(toks) :
                        IF g.rules[j].regexes[k].on
                        THEN RegexMatch(g.rules[j].regexes[k].body, toks[k])
                        ELSE g.rules[j].right[k] = toks[k]}}

\* C9: get_lhs raises nothing and returns the left sides of the rules that
\* match the key over their whole right side.
C9_GetLhsWholeRightSide ==
    out.op = "get_lhs" =>
        /\ out.err = "ok"
        /\ out.val = WholeMatches(G, default_tokenizer(out.key))

\* C10: a call of minimize raises nothing, keeps (in their order) the rules
\* whose left side is the start symbol or occurs in some right side,
\* deletes the others and leaves the start symbol alone.
C10_MinimizeDeletesUnused ==
    [][Minimize =>
         /\ out'.err = "ok"
         /\ rules' = SelectSeq2(rules, LAMBDA r :
                        \/ r.left = start
                        \/ \E i \in 1..Len(rules) : r.left \in Range(rules[i].right))
         /\ start' = start]_vars

\* rule i of g is a unit rule: its right side is a single left side of g
IsUnitRule(g, i) ==
    Len(g.rules[i].right) = 1 /\ g.rules[i].right[1] \in Lefts(g)

\* the chains of unit rules that start at a rule of L and end at a rule
\* that is not a unit rule, as sequences of rule numbers
Chains(g, L) ==
    {c \in SeqsUpTo(1..Len(g.rules), Len(g.rules)) :
        /\ c # <<>>
        /\ g.rules[c[1]].left = L
        /\ \A m \in 1..(Len(c) - 1) :
              IsUnitRule(g, c[m]) /\ g.rules[c[m]].right[1] = g.rules[c[m + 1]].left
        /\ ~IsUnitRule(g, c[Len(c)])}

\* C11: expand_unit_productions returns a grammar that has, for every left
\* side L and every right side v, as many rules L -> v as there are chains
\* from L that end at a rule with the right side v; none of its rules is a
\* unit rule.
C11_ExpandUnitChains ==
    out.op = "expand" =>
        /\ out.err = "ok"
        /\ \A L \in Lefts(G) \cup Lefts(out.ret) :
           \A v \in {G.rules[i].right : i \in 1..Len(G.rules)}
                      \cup {out.ret.rules[k].right : k \in 1..Len(out.ret.rules)} :
              Cardinality({k \in 1..Len(out.ret.rules) :
                             out.ret.rules[k].left = L /\ out.ret.rules[k].right = v})
                = Cardinality({c \in Chains(G, L) : G.rules[c[Len(c)]].right = v})
        /\ \A k \in 1..Len(out.ret.rules) : ~IsUnitRule(out.ret, k)

\* del grammar[:], the deletion request with neither filter
UnboundedKey == Slice(None, FALSE, Lst(<<>>))

\* C12 as stated: a deletion request with neither a left-side nor a
\* right-side filter is rejected with an error and leaves the rules as
\* they were.
C12_UnfilteredDeletionRejected ==
    [][(DelItem /\ out'.op = "delitem" /\ out'.key = UnboundedKey) =>
          (out'.err # "ok" /\ rules' = rules)]_vars

\* C12 amended: a deletion request with neither filter raises nothing and
\* deletes every rule, leaving the start symbol alone; a deletion key that
\* is not a slice is rejected and leaves rules and start symbol unchanged.
C12_UnfilteredDeletionClears ==
    [][(DelItem /\ out'.op = "delitem") =>
          /\ out'.key = UnboundedKey =>
                (out'.err = "ok" /\ rules' = <<>> /\ start' = start)
          /\ ~out'.key.slice =>
                (out'.err = "NotImplementedError" /\ rules' = rules /\ start' = start)]_vars

\* del grammar[:] has emptied a grammar that held rules
C12_Witness ==
    /\ out.op = "delitem"
    /\ out.key = UnboundedKey
    /\ out.err = "ok"
    /\ rules = <<>>
    /\ start # None

\* C13 as stated: an insertion never overrides an explicitly assigned start
\* symbol, an insertion into a grammar that has rules never changes the
\* start symbol, and the first insertion into a fresh grammar makes its left
\* side the start symbol.
C13_InsertionKeepsAssignedStart ==
    [][(SetItem /\ out'.op = "setitem") =>
          /\ out.op = "set_start" => start' = start
          /\ rules # <<>> => start' = start
          /\ (rules = <<>> /\ start = None /\ rules' # <<>>) => start' = out'.lhs]_vars

\* C13 amended: an insertion that appends a rule to a grammar holding no
\* rule makes its left side the start symbol, whatever the start symbol was
\* (an explicitly assigned one included); an insertion into a grammar that
\* has rules, and one that appends nothing, never change the start symbol.
C13_InsertionSetsStartWhenEmpty ==
    [][(SetItem /\ out'.op = "setitem") =>
          /\ (rules = <<>> /\ rules' # <<>>) =>
                (start' = out'.lhs /\ start' = rules'[1].left)
          /\ (rules # <<>> \/ rules' = <<>>) => start' = start]_vars

\* the first insertion into a grammar without rules has replaced another
\* start symbol by its own left side
C13_Witness ==
    /\ out.op = "setitem"
    /\ out.was # None
    /\ out.was # out.lhs
    /\ Len(rules) = 1
    /\ start = out.lhs

\* the tree is built of rules of the grammar: a node stands for a rule of
\* its label with one child per right-hand symbol, a token child matches
\* the terminal at its position, a subtree child is rooted at the
\* nonterminal at its position
RECURSIVE WellFormed(_, _)
WellFormed(g, t) ==
    /\ ~t.leaf
    /\ \E i \in 1..Len(g.rules) :
          /\ g.rules[i].left = t.label
          /\ Len(g.rules[i].right) = Len(t.kids)
          /\ \A k \in 1..Len(t.kids) :
                IF t.kids[k].leaf
                THEN /\ g.rules[i].right[k] \notin Lefts(g)
                     /\ TermMatch(g.rules[i].right[k], t.kids[k].label)
                ELSE /\ t.kids[k].label = g.rules[i].right[k]
                     /\ WellFormed(g, t.kids[k])

\* every node has one token child or two subtree children
RECURSIVE CkyShaped(_)
CkyShaped(t) ==
    /\ ~t.leaf
    /\ \/ Len(t.kids) = 1 /\ t.kids[1].leaf
       \/ /\ Len(t.kids) = 2
          /\ \A k \in 1..2 : CkyShaped(t.kids[k])

\* C14: every tree returned by earley_parse and every tree returned by
\* cky_parse is well-formed with respect to the grammar parsed with, and a
\* tree of cky_parse has one token child or two subtree children at every
\* node.
C14_TreesWellFormed ==
    /\ (pc = "done" /\ out.op = "earley_parse") =>
          \A k \in 1..Len(out.val) : WellFormed(G, out.val[k])
    /\ pc \in {"direct", "compared"} =>
          \A t \in out.direct.val : WellFormed(G, t) /\ CkyShaped(t)

\* C15: earley_parse terminates on every grammar and sentence because the
\* worklist of every column is exhausted: the call ends by returning its
\* trees (or on an error of its input), never by the chart growing until
\* the interpreter's recursion limit stops it.
C15_EarleyTerminates ==
    (pc = "done" /\ out.op = "earley_parse") => out.err # "RecursionError"

\* res is text with position i retagged from orig to new exactly when i is
\* not the first position, the tag at i is orig and the tag before it, as
\* it stands in res, is 'before'; the words are kept
Retagged(text, self, res) ==
    /\ Len(res) = Len(text)
    /\ \A i \in 1..Len(text) :
          /\ res[i].word = text[i].word
          /\ res[i].tag = IF i > 1 /\ text[i].tag = self.orig
                             /\ res[i - 1].tag = self.before
                          THEN self.new
                          ELSE text[i].tag

TagsOf(text) == [i \in 1..Len(text) |-> text[i].tag]

\* C16: calling Transform(orig, new, before) on a tagged text returns a new
\* list in which position i is retagged from orig to new exactly when i > 0,
\* its tag is orig and the tag of i-1 after the retagging of i-1 is before;
\* the argument is left unchanged.
C16_TransformRetags ==
    out.op = "call" =>
        /\ Retagged(out.arg, out.self, out.ret)
        /\ ~out.same
        /\ tagged_text = out.arg

\* NN -> VB / NN on NN NN NN has given NN VB NN
C16_Witness ==
    /\ out.op = "call"
    /\ out.self = Transform(NN, VB, NN)
    /\ TagsOf(out.arg) = <<NN, NN, NN>>
    /\ TagsOf(out.ret) = <<NN, VB, NN>>
    /\ tagged_text = out.arg

\* earley_parse has taken every state of column coli, the states appended
\* to it meanwhile included
ColumnFinished == pc = "run" /\ pos > Len(chart[coli + 1])

\* every unfinished state of the column that expects a nonterminal has a
\* zero-progress state with this column as origin for every rule of it
PredictClosed(column, i) ==
    \A k \in 1..Len(column) :
        (~finished(column[k]) /\ contains(G, state_next(column[k]))) =>
            \A r \in 1..Len(rules) :
                rules[r].left = state_next(column[k]) =>
                    in_column(EarleyState(rules[r], 0, i, <<>>), column)

\* every state of the origin column of a finished state that expects its
\* left side has its advanced copy in the column
CompleteClosed(column) ==
    \A k \in 1..Len(column) :
        finished(column[k]) =>
            \A j \in 1..Len(chart[column[k].origin + 1]) :
                LET other == chart[column[k].origin + 1][j]
                IN  (~finished(other) /\ state_next(other) = column[k].rule.left) =>
                        in_column(make_progress(other, StateC(column[k])), column)

\* C17: when earley_parse has finished a column, the column is closed under
\* prediction and completion: the states appended to it while it was being
\* processed have been processed too.
C17_ColumnClosed ==
    ColumnFinished =>
        /\ PredictClosed(chart[coli + 1], coli)
        /\ CompleteClosed(chart[coli + 1])

\* a finished column after the first that holds a predicted state and a
\* state advanced by a completion, both appended while it was processed
C17_Witness ==
    /\ ColumnFinished
    /\ coli >= 1
    /\ \E k \in 1..Len(chart[coli + 1]) :
          /\ chart[coli + 1][k].progress = 0
          /\ chart[coli + 1][k].origin = coli
    /\ \E k \in 1..Len(chart[coli + 1]) :
          /\ chart[coli + 1][k].constituents # <<>>
          /\ ~chart[coli + 1][k].constituents[Len(chart[coli + 1][k].constituents)].tok
          /\ chart[coli + 1][k].rule.left # DummyLeft

\* C18: expand_unit_productions, and to_cnf which calls it, terminate on
\* every grammar, the grammars with a cycle of unit productions included:
\* no call ends by all_derivations calling itself until the interpreter's
\* recursion limit stops it.
C18_ExpandTerminates ==
    out.op \in {"expand", "to_cnf"} => out.err # "RecursionError"

\* C19: an insertion that fails with the empty-right-side error leaves the
\* grammar as it was before the call: no alternative of the rejected text
\* has been appended and the start symbol is unchanged.
C19_FailedInsertionLeavesGrammar ==
    [][(SetItem /\ out'.op = "setitem" /\ out'.err = "ValueError") =>
          (rules' = rules /\ start' = start)]_vars

\* a grammar that holds a rule has a left side of its rules as start symbol
StartIsLeftSide == rules # <<>> => start \in Lefts(G)

\* C20: insertion, deletion, renaming and minimization keep the start
\* symbol a left side of the grammar: after any sequence of them a grammar
\* that holds at least one rule has the left side of one of its rules as
\* start symbol.
C20_StartStaysLeftSide ==
    [][((SetItem \/ DelItem \/ Rename \/ Minimize) /\ StartIsLeftSide) =>
          StartIsLeftSide']_vars

\* C21: the start symbol of to_cnf(G) is the start symbol of G, also when
\* it was assigned to a symbol other than the left side of the first rule,
\* and the grammar returned keeps a rule of that symbol.  Stated for the
\* grammars whose start symbol is a left side of their rules.
C21_ToCnfKeepsStart ==
    (out.op = "to_cnf" /\ out.err = "ok" /\ rules # <<>> /\ start \in Lefts(G)) =>
        /\ out.ret.start = start
        /\ \E k \in 1..Len(out.ret.rules) : out.ret.rules[k].left = start

====
